---- MODULE Spec2Model ----
(***************************************************************************)
(* A model of src/Trading_Bot.py: the Kelly position sizer (AdaptiveKelly),*)
(* the entropy pool (EntropyHarvester), the FIX application callbacks      *)
(* (FIXEngine), the terminal bridge (MT5Bridge) and the orchestrator       *)
(* (QuantumTradingSystem) running on one cooperative asyncio event loop.   *)
(*                                                                         *)
(* AdaptiveKelly.calculate works on Python floats, which are IEEE-754      *)
(* binary64 numbers.  The first part of the module is that arithmetic:     *)
(* TLC's integers are 32 bits wide, so 53-bit significands are kept as     *)
(* little-endian sequences of 13-bit limbs.                                *)
(***************************************************************************)
EXTENDS Integers, Sequences, FiniteSets, TLC

(***************************************************************************)
(* Natural numbers of any size: <<l1, ..., ln>> is l1 + l2*Base + ...,     *)
(* with ln # 0; zero is <<>>.                                              *)
(***************************************************************************)
LimbBits == 13

Base == 2^LimbBits

NZero == <<>>

RECURSIVE NTrim(_)
NTrim(a) ==
  IF a = <<>> THEN <<>>
  ELSE IF a[Len(a)] = 0 THEN NTrim(SubSeq(a, 1, Len(a) - 1)) ELSE a

RECURSIVE NFromInt(_)
NFromInt(n) == IF n = 0 THEN <<>> ELSE <<n % Base>> \o NFromInt(n \div Base)

Limb(a, i) == IF i <= Len(a) THEN a[i] ELSE 0

MaxOf(x, y) == IF x >= y THEN x ELSE y

RECURSIVE NCmpFrom(_, _, _)
NCmpFrom(a, b, i) ==
  IF i = 0 THEN 0
  ELSE IF Limb(a, i) < Limb(b, i) THEN -1
  ELSE IF Limb(a, i) > Limb(b, i) THEN 1
  ELSE NCmpFrom(a, b, i - 1)

\* -1, 0 or 1 as a < b, a = b, a > b
NCmp(a, b) == NCmpFrom(a, b, MaxOf(Len(a), Len(b)))

RECURSIVE NAddFrom(_, _, _, _)
NAddFrom(a, b, i, carry) ==
  IF i > Len(a) /\ i > Len(b)
  THEN IF carry = 0 THEN <<>> ELSE <<carry>>
  ELSE LET s == Limb(a, i) + Limb(b, i) + carry
       IN  <<s % Base>> \o NAddFrom(a, b, i + 1, s \div Base)

NAdd(a, b) == NAddFrom(a, b, 1, 0)

RECURSIVE NSubFrom(_, _, _, _)
NSubFrom(a, b, i, borrow) ==
  IF i > Len(a) THEN <<>>
  ELSE LET d == Limb(a, i) - Limb(b, i) - borrow
       IN  IF d < 0 THEN <<d + Base>> \o NSubFrom(a, b, i + 1, 1)
           ELSE <<d>> \o NSubFrom(a, b, i + 1, 0)

\* a - b, for a >= b
NSub(a, b) == NTrim(NSubFrom(a, b, 1, 0))

RECURSIVE NMulSmallFrom(_, _, _, _)
NMulSmallFrom(a, k, i, carry) ==
  IF i > Len(a) THEN IF carry = 0 THEN <<>> ELSE <<carry>>
  ELSE LET s == a[i] * k + carry
       IN  <<s % Base>> \o NMulSmallFrom(a, k, i + 1, s \div Base)

\* a * k, for 0 <= k <= Base
NMulSmall(a, k) == IF k = 0 THEN <<>> ELSE NMulSmallFrom(a, k, 1, 0)

Zeros(n) == [i \in 1..n |-> 0]

NShiftLimbs(a, n) == IF a = <<>> THEN <<>> ELSE Zeros(n) \o a

RECURSIVE NMulFrom(_, _, _)
NMulFrom(a, b, i) ==
  IF i > Len(b) THEN <<>>
  ELSE NAdd(NShiftLimbs(NMulSmall(a, b[i]), i - 1), NMulFrom(a, b, i + 1))

NMul(a, b) == NMulFrom(a, b, 1)

\* a * 2^k
NShl(a, k) == NShiftLimbs(NMulSmall(a, 2^(k % LimbBits)), k \div LimbBits)

RECURSIVE NDivSmallFrom(_, _, _, _)
NDivSmallFrom(a, k, i, rem) ==
  IF i = 0 THEN <<>>
  ELSE LET cur == rem * Base + a[i]
       IN  NDivSmallFrom(a, k, i - 1, cur % k) \o <<cur \div k>>

\* a \div k, for 0 < k <= Base
NDivSmall(a, k) == NTrim(NDivSmallFrom(a, k, Len(a), 0))

\* a \div 2^k
NShr(a, k) ==
  IF k \div LimbBits >= Len(a) THEN <<>>
  ELSE NDivSmall(SubSeq(a, k \div LimbBits + 1, Len(a)), 2^(k % LimbBits))

RECURSIVE IntBitLen(_)
IntBitLen(n) == IF n = 0 THEN 0 ELSE 1 + IntBitLen(n \div 2)

NBitLen(a) ==
  IF a = <<>> THEN 0 ELSE LimbBits * (Len(a) - 1) + IntBitLen(a[Len(a)])

NIsOdd(a) == a # <<>> /\ a[1] % 2 = 1

NOne == NFromInt(1)

\* k steps of binary long division: from qr = [q, r] with r < d to
\* [q', r'] with (q * d + r) * 2^k = q' * d + r' and r' < d
RECURSIVE NLongDiv(_, _, _)
NLongDiv(qr, d, k) ==
  IF k = 0 THEN qr
  ELSE LET r2 == NAdd(qr.r, qr.r)
           q2 == NAdd(qr.q, qr.q)
       IN  IF NCmp(r2, d) >= 0
           THEN NLongDiv([q |-> NAdd(q2, NOne), r |-> NSub(r2, d)], d, k - 1)
           ELSE NLongDiv([q |-> q2, r |-> r2], d, k - 1)

(***************************************************************************)
(* Python floats.  A float is [neg, man, exp], the number                  *)
(* (-1)^neg * man * 2^exp, with man of exactly MantBits bits, or zero.     *)
(* The values the model computes stay far from the exponent limits, so     *)
(* overflow, subnormals and the sign of zero (which no comparison reads)   *)
(* are left out.                                                           *)
(***************************************************************************)
MantBits == 53

FZero == [neg |-> FALSE, man |-> NZero, exp |-> 0]

FIsZero(x) == x.man = NZero

\* round-to-nearest-even of (-1)^neg * (m + s) * 2^e to MantBits bits,
\* where 0 < s < 1 when sticky and s = 0 otherwise
FRound(neg, m, e, sticky) ==
  LET len == NBitLen(m)
  IN  IF len = 0 THEN FZero
      ELSE IF len <= MantBits
      THEN [neg |-> neg, man |-> NShl(m, MantBits - len), exp |-> e - (MantBits - len)]
      ELSE LET sh   == len - MantBits
               q    == NShr(m, sh)
               rest == NSub(m, NShl(q, sh))
               c    == NCmp(rest, NShl(NOne, sh - 1))
               up   == c > 0 \/ (c = 0 /\ (sticky \/ NIsOdd(q)))
               q1   == IF up THEN NAdd(q, NOne) ELSE q
           IN  IF NBitLen(q1) > MantBits
               THEN [neg |-> neg, man |-> NShr(q1, 1), exp |-> e + sh + 1]
               ELSE [neg |-> neg, man |-> q1, exp |-> e + sh]

\* Python's float(n) for an int n
FFromInt(n) == FRound(n < 0, NFromInt(IF n < 0 THEN -n ELSE n), 0, FALSE)

FNeg(x) == IF FIsZero(x) THEN x ELSE [x EXCEPT !.neg = ~x.neg]

\* x + y
FAdd(x, y) ==
  IF FIsZero(x) THEN y
  ELSE IF FIsZero(y) THEN x
  ELSE LET e  == IF x.exp <= y.exp THEN x.exp ELSE y.exp
           mx == NShl(x.man, x.exp - e)
           my == NShl(y.man, y.exp - e)
           c  == NCmp(mx, my)
       IN  IF x.neg = y.neg THEN FRound(x.neg, NAdd(mx, my), e, FALSE)
           ELSE IF c = 0 THEN FZero
           ELSE IF c > 0 THEN FRound(x.neg, NSub(mx, my), e, FALSE)
           ELSE FRound(y.neg, NSub(my, mx), e, FALSE)

\* x - y
FSub(x, y) == FAdd(x, FNeg(y))

\* x * y
FMul(x, y) ==
  IF FIsZero(x) \/ FIsZero(y) THEN FZero
  ELSE FRound(x.neg # y.neg, NMul(x.man, y.man), x.exp + y.exp, FALSE)

\* x / y, for y # 0 (Python raises ZeroDivisionError for y = 0)
FDiv(x, y) ==
  IF FIsZero(x) THEN FZero
  ELSE LET c  == NCmp(x.man, y.man)
           q0 == IF c >= 0 THEN NOne ELSE NZero
           r0 == IF c >= 0 THEN NSub(x.man, y.man) ELSE x.man
           qr == NLongDiv([q |-> q0, r |-> r0], y.man, MantBits + 2)
       IN  FRound(x.neg # y.neg, qr.q, x.exp - y.exp - (MantBits + 2), qr.r # NZero)

\* x < y
FLt(x, y) ==
  IF FIsZero(x) THEN ~FIsZero(y) /\ ~y.neg
  ELSE IF FIsZero(y) THEN x.neg
  ELSE IF x.neg # y.neg THEN x.neg
  ELSE LET less == x.exp < y.exp \/ (x.exp = y.exp /\ NCmp(x.man, y.man) < 0)
           more == x.exp > y.exp \/ (x.exp = y.exp /\ NCmp(x.man, y.man) > 0)
       IN  IF x.neg THEN more ELSE less

FLe(x, y) == ~FLt(y, x)

\* Python's max(x, y): y when y > x, else x
FMax(x, y) == IF FLt(x, y) THEN y ELSE x

\* the float nearest num/den: what the literal (0.25, 0.01, ...) denotes
FRatio(num, den) == FDiv(FFromInt(num), FFromInt(den))

(***************************************************************************)
(* Bounds of the model                                                     *)
(***************************************************************************)
\* win_prob ranges over k / ProbSteps, k in -1 .. ProbSteps + 1
ProbSteps == 10

\* win_loss_ratio ranges over k / RatioSteps, k in -1 .. MaxRatioNum
RatioSteps == 5

MaxRatioNum == 10

\* timedelta(minutes=5) counted in sleeps of feed (0.01 s each): 30000 in
\* the program, scaled down here
RefreshSleeps == 2

\* the longest time between two iterations of feed, in sleeps
MaxDelay == 2

\* the number of calls of execute
MaxOrders == 2

\* how long the model lets the terminal stay silent, in clock ticks
MaxWait == 2

(***************************************************************************)
(* Program constants                                                       *)
(***************************************************************************)
\* quantumrandom.binary(64), os.urandom(64)
ChunkBytes == 64

\* len(hashlib.sha3_256(...).digest())
DigestBytes == 32

\* The file uses os and hashlib without importing them: the names are bound
\* only if one of its star imports (quickfix, quickfix44) binds them, which
\* the source does not decide.  Both outcomes are kept.
VARIABLES
  osBound,       \* the name os is bound in the module's namespace
  hashlibBound,  \* the name hashlib is bound in the module's namespace
  mainPc,        \* where the __main__ block is
  error,         \* the exception that ended the __main__ block, or "none"
  failure,       \* the failure raised inside the loop of run, or "none"
  pool,          \* len(EntropyHarvester.pool)
  sinceRefresh,  \* datetime.now() - last_refresh, in sleeps of feed
  feedPc,        \* the task running EntropyHarvester.feed
  initiator,     \* FIXEngine.initiator
  session,       \* the FIX session, as onLogon/onLogout report it
  lastAdmin,     \* the last call of FIXEngine.toAdmin
  terminal,      \* what mt5.initialize() answered
  execPc,        \* where the running call of MT5Bridge.execute is
  waited,        \* ticks since that call entered mt5.order_send
  request,       \* the request of the last call of execute
  magics,        \* the magic numbers of all requests so far, in order
  kPc,           \* AdaptiveKelly: "none", "new" or "done"
  profile,       \* the profile given to AdaptiveKelly
  multiplier,    \* AdaptiveKelly.multiplier
  pNum,          \* win_prob is pNum / ProbSteps
  bNum,          \* win_loss_ratio is bNum / RatioSteps
  outcome        \* what calculate returned or raised

nsVars     == <<osBound, hashlibBound>>
mainVars   == <<mainPc, error, failure>>
feedVars   == <<pool, sinceRefresh, feedPc>>
fixVars    == <<initiator, session, lastAdmin>>
mt5Vars    == <<terminal, execPc, waited, request, magics>>
kellyVars  == <<kPc, profile, pNum, bNum, outcome>>
vars == <<nsVars, mainVars, feedVars, fixVars, mt5Vars, kellyVars, multiplier>>

MinOf(x, y) == IF x <= y THEN x ELSE y

(***************************************************************************)
(* AdaptiveKelly                                                           *)
(***************************************************************************)
Profiles == {"conservative", "moderate", "aggressive"}

\* RISK_PROFILES.get(profile, 0.5)
RISK_PROFILES(name) ==
  IF name = "conservative" THEN FRatio(1, 4)
  ELSE IF name = "moderate" THEN FRatio(1, 2)
  ELSE IF name = "aggressive" THEN FFromInt(1)
  ELSE FRatio(1, 2)

\* the literal 0.01 of calculate
KellyFloor == FRatio(1, 100)

FOne == FFromInt(1)

\* (win_prob * (win_loss_ratio + 1) - 1) / win_loss_ratio
raw_kelly(win_prob, win_loss_ratio) ==
  FDiv(FSub(FMul(win_prob, FAdd(win_loss_ratio, FOne)), FOne), win_loss_ratio)

\* AdaptiveKelly.calculate: what the call returns, or the exception it raises
calculate(mult, win_prob, win_loss_ratio) ==
  IF FIsZero(win_loss_ratio) THEN [kind |-> "ZeroDivisionError"]
  ELSE [kind  |-> "value",
        value |-> FMax(KellyFloor, FMul(raw_kelly(win_prob, win_loss_ratio), mult))]

NoOutcome == [kind |-> "none"]

\* AdaptiveKelly(name): self.multiplier = self.RISK_PROFILES.get(name, 0.5)
AdaptiveKelly_init(name) ==
  /\ profile' = name
  /\ multiplier' = RISK_PROFILES(name)
  /\ kPc' = "new"
  /\ UNCHANGED <<pNum, bNum, outcome>>

\* a caller builds a sizer with any profile name
NewSizer ==
  /\ kPc = "none"
  /\ \E name \in Profiles \cup {"unknown"} : AdaptiveKelly_init(name)
  /\ UNCHANGED <<nsVars, mainVars, feedVars, fixVars, mt5Vars>>

\* risk.calculate(pNum / ProbSteps, bNum / RatioSteps)
Calculate ==
  /\ kPc = "new"
  /\ outcome' = calculate(multiplier, FRatio(pNum, ProbSteps), FRatio(bNum, RatioSteps))
  /\ kPc' = "done"
  /\ UNCHANGED <<profile, multiplier, pNum, bNum, nsVars, mainVars, feedVars, fixVars,
                 mt5Vars>>

(***************************************************************************)
(* The event loop.  asyncio runs one coroutine at a time, from one await   *)
(* to the next; execute has no await, so from its call to its return the   *)
(* loop runs nothing else.                                                 *)
(***************************************************************************)
LoopFree == mainPc = "running" /\ execPc = "idle"

(***************************************************************************)
(* EntropyHarvester                                                        *)
(***************************************************************************)
\* EntropyHarvester(): an empty pool, last_refresh = now
EntropyHarvester_init ==
  /\ mainPc = "start"
  /\ pool' = 0
  /\ sinceRefresh' = 0
  /\ mainPc' = "entropy"
  /\ UNCHANGED <<feedPc, error, failure, nsVars, fixVars, mt5Vars, kellyVars, multiplier>>

\* a feed whose refresh never fires
Refresh_never(n, d) ==
  [pool |-> n, since |-> MinOf(sinceRefresh + d, RefreshSleeps + 1), pc |-> "sleeping"]

\* the refresh of feed, d sleeps after the last reading of the clock, on a
\* pool of n bytes
Refresh(n, d) ==
  IF sinceRefresh + d > RefreshSleeps
  THEN IF hashlibBound
       THEN [pool |-> DigestBytes, since |-> 0, pc |-> "sleeping"]
       ELSE [pool |-> n, since |-> MinOf(sinceRefresh + d, RefreshSleeps + 1),
             pc |-> "NameError"]
  ELSE [pool |-> n, since |-> sinceRefresh + d, pc |-> "sleeping"]

\* one iteration of the loop of feed, up to its await
FeedIteration(d) ==
  IF ~osBound
  THEN [pool |-> pool + ChunkBytes,
        since |-> MinOf(sinceRefresh + d, RefreshSleeps + 1), pc |-> "NameError"]
  ELSE Refresh(pool + ChunkBytes + ChunkBytes, d)

\* the task of feed runs: at its start, or when its sleep of 0.01 s is over
feed ==
  /\ LoopFree
  /\ feedPc \in {"ready", "sleeping"}
  /\ \E d \in (IF feedPc = "ready" THEN 0 ELSE 1) .. MaxDelay :
       LET r == FeedIteration(d)
       IN  /\ pool' = r.pool
           /\ sinceRefresh' = r.since
           /\ feedPc' = r.pc
  /\ UNCHANGED <<nsVars, mainVars, fixVars, mt5Vars, kellyVars, multiplier>>

(***************************************************************************)
(* FIXEngine                                                               *)
(***************************************************************************)
\* FIXEngine(): the settings, the stores and the initiator are built
FIXEngine_init ==
  /\ mainPc = "entropy"
  /\ initiator' = "constructed"
  /\ mainPc' = "fix"
  /\ UNCHANGED <<session, lastAdmin, error, failure, nsVars, feedVars, mt5Vars,
                 kellyVars, multiplier>>

EngineLive == initiator = "started" /\ mainPc = "running"

\* the engine reports a logon: the callback prints
onLogon ==
  /\ EngineLive
  /\ session = "logged_out"
  /\ session' = "logged_on"
  /\ UNCHANGED <<initiator, lastAdmin, nsVars, mainVars, feedVars, mt5Vars, kellyVars,
                 multiplier>>

\* the engine reports a logout: the callback prints
onLogout ==
  /\ EngineLive
  /\ session = "logged_on"
  /\ session' = "logged_out"
  /\ UNCHANGED <<initiator, lastAdmin, nsVars, mainVars, feedVars, mt5Vars, kellyVars,
                 multiplier>>

\* tag 35 of the admin messages: Heartbeat, TestRequest, ResendRequest,
\* Logout, Logon
AdminTypes == {"0", "1", "2", "5", "A"}

\* the body tags a message may hold when the engine hands it over
AdminBodies == {{}, {108}}

NoAdmin == [msgType |-> "none", before |-> {}, after |-> {}, raised |-> "none"]

\* toAdmin(message, sessionID) on a message of type t holding the tags
\* body: the tags it holds afterwards, and what the call raised
toAdminCall(t, body) ==
  IF t = "A"
  THEN IF ~osBound
       THEN [msgType |-> t, before |-> body, after |-> body, raised |-> "NameError"]
       ELSE [msgType |-> t, before |-> body, after |-> body \cup {553},
             raised |-> "AttributeError"]
  ELSE [msgType |-> t, before |-> body, after |-> body, raised |-> "none"]

\* the engine hands an outgoing admin message to the application
toAdmin ==
  /\ EngineLive
  /\ \E t \in AdminTypes, body \in AdminBodies : lastAdmin' = toAdminCall(t, body)
  /\ UNCHANGED <<initiator, session, nsVars, mainVars, feedVars, mt5Vars, kellyVars,
                 multiplier>>

(***************************************************************************)
(* MT5Bridge                                                               *)
(***************************************************************************)
\* a bridge that does not check what mt5.initialize() answers
MT5Bridge_init_unchecked(ok) ==
  /\ terminal' = IF ok THEN "connected" ELSE "failed"
  /\ mainPc' = "mt5"
  /\ error' = error

\* MT5Bridge(), when mt5.initialize() answers ok
MT5Bridge_init_with(ok) ==
  /\ terminal' = IF ok THEN "connected" ELSE "failed"
  /\ IF ok
     THEN mainPc' = "mt5" /\ error' = error
     ELSE mainPc' = "raised" /\ error' = "ConnectionError"

MT5Bridge_init ==
  /\ mainPc = "fix"
  /\ \E ok \in BOOLEAN : MT5Bridge_init_with(ok)
  /\ UNCHANGED <<execPc, waited, request, magics, failure, nsVars, feedVars, fixVars, kellyVars,
                 multiplier>>

Symbols == {"EURUSD"}

Volumes == {1}

\* int(quantumrandom.uint16()): the least and the greatest 16-bit value
\* stand for all of them
Magics == {0, 65535}

NoRequest == [action |-> "none"]

\* mt5.ORDER_TYPE_BUY, mt5.ORDER_TYPE_SELL
OrderTypes == {0, 1}

\* the request dict of execute
Request(symbol, volume, order_type, magic) ==
  [action    |-> "TRADE_ACTION_DEAL",
   symbol    |-> symbol,
   volume    |-> volume,
   type      |-> order_type,
   deviation |-> 10,
   magic     |-> magic,
   comment   |-> "QTS v5.0 Execution",
   type_time |-> "ORDER_TIME_GTC"]

\* execute(symbol, volume, order_type) up to its call of mt5.order_send,
\* which it makes on the loop's own thread
execute ==
  /\ LoopFree
  /\ Len(magics) < MaxOrders
  /\ \E symbol \in Symbols, volume \in Volumes, order_type \in OrderTypes,
        magic \in Magics :
       /\ request' = Request(symbol, volume, order_type, magic)
       /\ magics' = Append(magics, magic)
  /\ execPc' = "order_send"
  /\ waited' = 0
  /\ UNCHANGED <<terminal, nsVars, mainVars, feedVars, fixVars, kellyVars, multiplier>>

\* the clock ticks while mt5.order_send has not answered
Tick ==
  /\ execPc = "order_send"
  /\ waited < MaxWait
  /\ waited' = waited + 1
  /\ UNCHANGED <<terminal, execPc, request, magics, nsVars, mainVars, feedVars, fixVars,
                 kellyVars, multiplier>>

\* mt5.order_send answers and execute returns the answer
order_send_returns ==
  /\ execPc = "order_send"
  /\ execPc' = "idle"
  /\ waited' = 0
  /\ UNCHANGED <<terminal, request, magics, nsVars, mainVars, feedVars, fixVars,
                 kellyVars, multiplier>>

(***************************************************************************)
(* QuantumTradingSystem and the __main__ block                             *)
(***************************************************************************)
\* the last line of QuantumTradingSystem.__init__
QuantumTradingSystem_init ==
  /\ mainPc = "mt5"
  /\ AdaptiveKelly_init("aggressive")
  /\ mainPc' = "constructed"
  /\ UNCHANGED <<error, failure, nsVars, feedVars, fixVars, mt5Vars>>

\* asyncio.run(qts.run()), up to the loop of run
run ==
  /\ mainPc = "constructed"
  /\ feedPc' = "ready"
  /\ initiator' = "started"
  /\ mainPc' = "running"
  /\ UNCHANGED <<pool, sinceRefresh, session, lastAdmin, error, failure, nsVars, mt5Vars,
                 kellyVars, multiplier>>

\* an iteration of the loop of run: the sleep of 0.1 s ends
run_iteration ==
  /\ LoopFree
  /\ UNCHANGED vars

\* what ends run when kind is raised at the await of the loop: an Exception
\* reaches the handler, whose call of self._emergency_shutdown raises
\* AttributeError (the class has no such method); a CancelledError is no
\* Exception and passes the handler by
run_raises(kind) ==
  IF kind = "Exception" THEN "AttributeError" ELSE kind

\* a failure is raised inside the loop of run
run_failure ==
  /\ LoopFree
  /\ \E kind \in {"Exception", "CancelledError"} :
       /\ failure' = kind
       /\ error' = run_raises(kind)
  /\ mainPc' = "terminated"
  /\ feedPc' = IF feedPc \in {"ready", "sleeping"} THEN "cancelled" ELSE feedPc
  /\ UNCHANGED <<pool, sinceRefresh, nsVars, fixVars, mt5Vars, kellyVars, multiplier>>

(***************************************************************************)
(* Specifications                                                          *)
(***************************************************************************)
KellyIdle ==
  /\ kPc = "none"
  /\ profile = "none"
  /\ multiplier = FZero
  /\ outcome = NoOutcome

SystemIdle ==
  /\ mainPc = "start"
  /\ error = "none"
  /\ failure = "none"
  /\ pool = 0
  /\ sinceRefresh = 0
  /\ feedPc = "not_created"
  /\ initiator = "none"
  /\ session = "logged_out"
  /\ lastAdmin = NoAdmin
  /\ terminal = "unknown"
  /\ execPc = "idle"
  /\ waited = 0
  /\ request = NoRequest
  /\ magics = <<>>

\* the process starts: the imports are done, nothing is built
Init ==
  /\ osBound \in BOOLEAN
  /\ hashlibBound \in BOOLEAN
  /\ SystemIdle
  /\ KellyIdle
  /\ pNum = 0
  /\ bNum = 0

Next ==
  \/ EntropyHarvester_init
  \/ FIXEngine_init
  \/ MT5Bridge_init
  \/ QuantumTradingSystem_init
  \/ run
  \/ run_iteration
  \/ run_failure
  \/ feed
  \/ onLogon
  \/ onLogout
  \/ toAdmin
  \/ execute
  \/ Tick
  \/ order_send_returns

Spec == Init /\ [][Next]_vars

\* the sizer alone, on every input of the grid
InitKelly ==
  /\ osBound = FALSE
  /\ hashlibBound = FALSE
  /\ SystemIdle
  /\ KellyIdle
  /\ pNum \in -1 .. ProbSteps + 1
  /\ bNum \in -1 .. MaxRatioNum

NextKelly == NewSizer \/ Calculate

SpecKelly == InitKelly /\ [][NextKelly]_vars

(***************************************************************************)
(* The claims                                                              *)
(***************************************************************************)
\* the input of calculate is one the specification allows:
\* win_prob in [0, 1] and win_loss_ratio > 0
ValidInput == 0 <= pNum /\ pNum <= ProbSteps /\ bNum > 0

Sized == kPc = "done" /\ profile \in Profiles

\* C1: for every win_prob in [0, 1], every win_loss_ratio > 0 and every
\* preset, calculate returns a fraction f with 0.01 <= f <= 1.0.
C1_FractionInRange ==
  (Sized /\ ValidInput) =>
    /\ outcome.kind = "value"
    /\ FLe(KellyFloor, outcome.value)
    /\ FLe(outcome.value, FOne)

\* C2: a call of calculate with win_loss_ratio <= 0 or win_prob outside
\* [0, 1] fails with InvalidInputError and returns no fraction.
C2_InvalidInputRejected ==
  (kPc = "done" /\ ~ValidInput) => outcome.kind = "InvalidInputError"

\* x, held between the floor 0.01 and the ceiling 1.0
ClampToFloorAndCeiling(x) ==
  IF FLt(x, KellyFloor) THEN KellyFloor ELSE IF FLt(FOne, x) THEN FOne ELSE x

\* C3: on valid input calculate returns exactly the Kelly fraction times
\* the preset's multiplier, clamped to the floor 0.01 and the ceiling 1.0;
\* win_prob 0.6 and win_loss_ratio 2 give 0.40 under aggressive, and
\* win_prob 0.5 and win_loss_ratio 1 give the floor 0.01 under conservative.
C3_ExactClampedKelly ==
  (Sized /\ ValidInput) =>
    /\ outcome.kind = "value"
    /\ outcome.value =
         ClampToFloorAndCeiling(
           FMul(raw_kelly(FRatio(pNum, ProbSteps), FRatio(bNum, RatioSteps)),
                RISK_PROFILES(profile)))
    /\ (10 * pNum = 6 * ProbSteps /\ bNum = 2 * RatioSteps /\ profile = "aggressive")
         => outcome.value = FRatio(40, 100)
    /\ (2 * pNum = ProbSteps /\ bNum = RatioSteps /\ profile = "conservative")
         => outcome.value = KellyFloor

\* C4: no two requests submitted through execute carry the same magic
\* number.
C4_UniqueMagic ==
  \A i, j \in DOMAIN magics : i # j => magics[i] # magics[j]

\* C6: execute never holds the event loop beyond a deadline: whatever the
\* deadline, below the MaxWait ticks the model follows, a terminal that
\* has not answered by then sees execute return and the loop run on.
C6_BoundedBlocking == execPc = "order_send" => waited < MaxWait

\* C7: after a failure raised inside the loop of run the loop has halted,
\* run has ended and the FIX session was logged out first: the initiator
\* is no longer running and no session is logged on.
C7_OrderlyShutdown ==
  failure # "none" =>
    /\ mainPc = "terminated"
    /\ initiator # "started"
    /\ session # "logged_on"

\* C8: toAdmin changes a message only when its tag 35 is "A", and then
\* sets exactly the tags 553 and 554; it leaves every other message as it
\* was.
C8_LogonFieldsOnly ==
  lastAdmin.msgType # "none" =>
    /\ lastAdmin.raised = "none"
    /\ lastAdmin.after =
         IF lastAdmin.msgType = "A" THEN lastAdmin.before \cup {553, 554}
         ELSE lastAdmin.before

C10_NothingStartsWithoutTerminal ==
  terminal = "failed" =>
    /\ error = "ConnectionError"
    /\ mainPc = "raised"
    /\ initiator = "constructed"
    /\ feedPc = "not_created"
    /\ session = "logged_out"
    /\ lastAdmin = NoAdmin
    /\ magics = <<>>
    /\ pool = 0

\* the terminal has failed to initialize, after the FIX engine was built
C10_TerminalFailed == terminal = "failed" /\ initiator = "constructed"

====
